---------------------------- MODULE Spec2Model ----------------------------
(***************************************************************************)
(* Model of main.py: extraction of "0x" addresses from the remarks column  *)
(* of the sanctions export, truncation detection, the remote lookup of     *)
(* truncated records, global deduplication and the diff against data.csv.  *)
(*                                                                         *)
(* A Python str is a sequence of one-character strings.                    *)
(***************************************************************************)
EXTENDS Integers, Sequences, FiniteSets, TLC

VARIABLES
    \* --- the pure text functions (SpecText) ---
    segs,        \* ghost: the pieces the text was assembled from
    text,        \* the argument handed to extract_addresses / is_truncated
    tpc,         \* "in" | "run" | "out"
    extracted,   \* extract_addresses(text)
    flagged,     \* is_truncated(text)
    rejoined,    \* extract_addresses(" ".join(extracted))
    recited,     \* extract_addresses of the output re-written as citations
    \* --- the world process_sdn_csv runs in ---
    sdn,            \* the rows of the export csv.reader yields
    datacsv,        \* data.csv: [exists, content]
    web,            \* what the search service has answered, per name and URL
    \* --- process_sdn_csv (Spec) ---
    pc,             \* where the run stands
    run,            \* 1 for the first run, 2 for the run that follows it
    existing_data,  \* the set load_existing_data returned
    results,        \* the list of (address, name)
    seen_pairs,     \* the set of (address.lower(), name)
    row_num,        \* enumerate's counter: the row being processed
    addresses,      \* the candidate list of the row
    search_results, \* what query_ofac_search returned
    res_idx,        \* the place of query_addresses_for_name's loop in it
    db_addresses,   \* the list query_addresses_for_name collects
    new_entries,    \* the pairs reported as updates
    \* --- history ---
    log,            \* the requests the run has issued, in order
    prior,          \* data.csv as the run found it
    results1        \* the first run's result list

textVars == <<segs, text, tpc, extracted, flagged, rejoined, recited>>

worldVars == <<sdn, datacsv, web>>

runVars == <<pc, run, existing_data, results, seen_pairs, row_num, addresses,
             search_results, res_idx, db_addresses, new_entries,
             log, prior, results1>>

vars == <<textVars, worldVars, runVars>>

----------------------------------------------------------------------------
(* Characters and character classes (re's \s, \w and [A-Za-z0-9]).         *)

UpperCase == <<"A","B","C","D","E","F","G","H","I","J","K","L","M",
               "N","O","P","Q","R","S","T","U","V","W","X","Y","Z">>

LowerCase == <<"a","b","c","d","e","f","g","h","i","j","k","l","m",
               "n","o","p","q","r","s","t","u","v","w","x","y","z">>

Digits == {"0","1","2","3","4","5","6","7","8","9"}

Range(s) == {s[i] : i \in DOMAIN s}

\* \s
Spaces == {" ", "\t", "\n", "\r"}

\* [A-Za-z0-9]
Alnums == Range(UpperCase) \cup Range(LowerCase) \cup Digits

\* \w
Words == Alnums \cup {"_"}

\* the characters strip('"') removes
Quotes == {"\""}

IsSpace(c) == c \in Spaces

\* str.lower(), one character
LowerChar(c) ==
    IF c \in Range(UpperCase)
    THEN LowerCase[CHOOSE i \in DOMAIN UpperCase : UpperCase[i] = c]
    ELSE c

\* str.lower()
Lower(s) == [i \in DOMAIN s |-> LowerChar(s[i])]

\* s[p:].startswith(lit), p counted from 1
HasAt(s, p, lit) ==
    /\ p >= 1
    /\ p + Len(lit) - 1 <= Len(s)
    /\ \A i \in 1..Len(lit) : s[p + i - 1] = lit[i]

StartsWith(s, lit) == HasAt(s, 1, lit)

EndsWith(s, lit) == HasAt(s, Len(s) - Len(lit) + 1, lit)

\* lit in s
Contains(s, lit) == \E p \in 1..(Len(s) + 1) : HasAt(s, p, lit)

\* the first position q >= p whose character is not in the class (Len+1 at the end)
SkipWhile(s, p, class) ==
    CHOOSE q \in p..(Len(s) + 1) :
        /\ (q = Len(s) + 1 \/ s[q] \notin class)
        /\ \A r \in p..(q - 1) : s[r] \in class

\* the last position q <= p whose character is not in the class (0 at the start)
SkipBack(s, p, class) ==
    CHOOSE q \in 0..p :
        /\ (q = 0 \/ s[q] \notin class)
        /\ \A r \in (q + 1)..p : s[r] \in class

\* str.strip(): leading and trailing whitespace removed
Strip(s) ==
    LET a == SkipWhile(s, 1, Spaces)
        b == SkipBack(s, Len(s), Spaces)
    IN  IF a > b THEN <<>> ELSE SubSeq(s, a, b)

\* str.strip('"')
StripQuotes(s) ==
    LET a == SkipWhile(s, 1, Quotes)
        b == SkipBack(s, Len(s), Quotes)
    IN  IF a > b THEN <<>> ELSE SubSeq(s, a, b)

RECURSIVE Concat(_)
\* "".join(ss)
Concat(ss) == IF ss = <<>> THEN <<>> ELSE Head(ss) \o Concat(Tail(ss))

RECURSIVE Join(_, _)
\* sep.join(ss)
Join(ss, sep) ==
    IF ss = <<>> THEN <<>>
    ELSE IF Len(ss) = 1 THEN ss[1]
    ELSE ss[1] \o sep \o Join(Tail(ss), sep)

----------------------------------------------------------------------------
(* Literals of main.py.                                                    *)

Placeholder == <<"-","0","-">>

Marker == <<"D","i","g","i","t","a","l"," ","C","u","r","r","e","n","c","y",
            " ","A","d","d","r","e","s","s">>

AltPrefix == <<"a","l","t",".">>

EthPrefix == <<"0","x">>

TruncationThreshold == 990

----------------------------------------------------------------------------
(* extract_addresses.  The pattern of line 22, piece by piece:             *)
(*   an optional group: "alt." and any whitespace;                         *)
(*   the literal "Digital Currency Address"; any whitespace; "-";          *)
(*   any whitespace; one or more word characters (the currency code);      *)
(*   one or more whitespace; group 1: one or more of [A-Za-z0-9].          *)
(* re.finditer scans for the leftmost, non-overlapping matches.            *)

NoMatch == [ok |-> FALSE, start |-> 0, stop |-> 0, group1 |-> <<>>]

\* the pattern from the literal on, tried at q, for a match that starts
\* at p.  Every quantifier is greedy and the class after it is disjoint
\* from its own, so giving characters back never helps.
CoreAt(s, p, q) ==
    IF ~HasAt(s, q, Marker) THEN NoMatch
    ELSE
      LET a == SkipWhile(s, q + Len(Marker), Spaces)
      IN  IF ~HasAt(s, a, <<"-">>) THEN NoMatch
          ELSE
            LET b == SkipWhile(s, a + 1, Spaces)
                c == SkipWhile(s, b, Words)
                d == SkipWhile(s, c, Spaces)
                e == SkipWhile(s, d, Alnums)
            IN  IF c > b /\ d > c /\ e > d
                THEN [ok |-> TRUE, start |-> p, stop |-> e,
                      group1 |-> SubSeq(s, d, e - 1)]
                ELSE NoMatch

\* the whole pattern tried at p: first with the optional "alt." group,
\* and, when that fails, without it
MatchAt(s, p) ==
    LET withAlt == IF HasAt(s, p, AltPrefix)
                   THEN CoreAt(s, p, SkipWhile(s, p + Len(AltPrefix), Spaces))
                   ELSE NoMatch
    IN  IF withAlt.ok THEN withAlt ELSE CoreAt(s, p, p)

\* re.search from position pos: the leftmost match
SearchFrom(s, pos) ==
    LET starts == {p \in pos..Len(s) : MatchAt(s, p).ok}
    IN  IF starts = {} THEN NoMatch
        ELSE MatchAt(s, CHOOSE p \in starts : \A r \in starts : p <= r)

RECURSIVE FindIter(_, _)
\* re.finditer: the matches, each search resuming where the last match ended
FindIter(s, pos) ==
    LET m == SearchFrom(s, pos)
    IN  IF ~m.ok THEN <<>> ELSE <<m>> \o FindIter(s, m.stop)

\* KeepEth without the startswith("0x") test
KeepEth_any(ms) == ms

\* the loop body of lines 25-29: the prefix filter
KeepEth(ms) == SelectSeq(ms, LAMBDA m : StartsWith(m.group1, EthPrefix))

\* extract_addresses returning address[2:], the token without its prefix
extract_addresses_unprefixed(s) ==
    IF s = <<>> \/ s = Placeholder THEN <<>>
    ELSE LET kept == SelectSeq(FindIter(s, 1),
                               LAMBDA m : StartsWith(m.group1, EthPrefix))
         IN  [i \in DOMAIN kept |->
                 SubSeq(kept[i].group1, 3, Len(kept[i].group1))]

extract_addresses(s) ==
    IF s = <<>> \/ s = Placeholder THEN <<>>
    ELSE LET kept == KeepEth(FindIter(s, 1))
         IN  [i \in DOMAIN kept |-> kept[i].group1]

----------------------------------------------------------------------------
(* is_truncated                                                            *)

\* is_truncated with the length test written "> 990"
is_truncated_above(s) ==
    IF s = <<>> \/ s = Placeholder THEN FALSE
    ELSE IF ~Contains(s, Marker) THEN FALSE
    ELSE IF Len(s) > TruncationThreshold
         THEN LET stripped == Strip(s)
              IN  ~EndsWith(stripped, <<".">>) /\ ~EndsWith(stripped, <<";">>)
         ELSE FALSE

is_truncated(s) ==
    IF s = <<>> \/ s = Placeholder THEN FALSE
    ELSE IF ~Contains(s, Marker) THEN FALSE
    ELSE IF Len(s) >= TruncationThreshold
         THEN LET stripped == Strip(s)
              IN  ~EndsWith(stripped, <<".">>) /\ ~EndsWith(stripped, <<";">>)
         ELSE FALSE

----------------------------------------------------------------------------
(* The texts the pure functions are applied to.  A text is assembled from  *)
(* pieces (citations and other remarks) separated by "; ", closed by an    *)
(* ending and, for the long ones, filled in front up to a target length.   *)

MaxSegs == 2

Cite(alt, dash, cur, tok) ==
    [kind |-> "cite", alt |-> alt, dash |-> dash, cur |-> cur, tok |-> tok]

Remark(body) == [kind |-> "remark", body |-> body]

SegSet ==
    { Cite(TRUE,  <<" ","-"," ">>, <<"E","T","H">>, <<"0","x","A","b","C","1","2","3">>),
      Cite(FALSE, <<" ","-"," ">>, <<"X","B","T">>, <<"1","x","y","z">>),
      Cite(FALSE, <<"-">>,         <<"E","T","H">>, <<"0","x","9","9","9">>),
      Remark(<<"D","O","B"," ","1","9","7","0">>),
      Remark(Marker),
      Remark(Placeholder) }

Endings == { <<>>, <<".">>, <<";">>, <<" ">>, <<".", " ">> }

TargetLens == { 0, TruncationThreshold - 1, TruncationThreshold,
                TruncationThreshold + 5 }

SegLists == UNION { [1..n -> SegSet] : n \in 0..MaxSegs }

RenderSeg(g) ==
    IF g.kind = "cite"
    THEN (IF g.alt THEN AltPrefix \o <<" ">> ELSE <<>>)
         \o Marker \o g.dash \o g.cur \o <<" ">> \o g.tok
    ELSE g.body

Fill(n) == [i \in 1..n |-> "z"]

RenderText(d) ==
    LET body == Join([i \in DOMAIN d.parts |-> RenderSeg(d.parts[i])],
                     <<";", " ">>) \o d.ending
    IN  IF d.target > Len(body) THEN Fill(d.target - Len(body)) \o body
        ELSE body

\* the address re-written as a citation, for the second extraction
AsCitation(addr) == Marker \o <<" ","-"," ","E","T","H"," ">> \o addr

InitText ==
    /\ segs \in [parts : SegLists, ending : Endings, target : TargetLens]
    /\ text = RenderText(segs)
    /\ tpc = "in"
    /\ extracted = <<>>
    /\ flagged = FALSE
    /\ rejoined = <<>>
    /\ recited = <<>>
    /\ sdn = <<>> /\ datacsv = [exists |-> FALSE, content |-> <<>>]
    /\ web = [get |-> <<>>, post |-> <<>>, detail |-> <<>>]
    /\ pc = "idle" /\ run = 1 /\ existing_data = {} /\ results = <<>>
    /\ seen_pairs = {} /\ row_num = 0 /\ addresses = <<>>
    /\ search_results = <<>> /\ res_idx = 1 /\ db_addresses = <<>>
    /\ new_entries = <<>> /\ log = <<>>
    /\ prior = [exists |-> FALSE, content |-> <<>>] /\ results1 = <<>>

Extract ==
    /\ tpc = "in"
    /\ extracted' = extract_addresses(text)
    /\ tpc' = "extracted"
    /\ UNCHANGED <<segs, text, flagged, rejoined, recited, worldVars, runVars>>

Detect ==
    /\ tpc = "extracted"
    /\ flagged' = is_truncated(text)
    /\ tpc' = "flagged"
    /\ UNCHANGED <<segs, text, extracted, rejoined, recited, worldVars, runVars>>

ExtractAgain ==
    /\ tpc = "flagged"
    /\ rejoined' = extract_addresses(Join(extracted, <<" ">>))
    /\ recited' = extract_addresses(
                      Join([i \in DOMAIN extracted |-> AsCitation(extracted[i])],
                           <<";", " ">>))
    /\ tpc' = "out"
    /\ UNCHANGED <<segs, text, extracted, flagged, worldVars, runVars>>

NextText == Extract \/ Detect \/ ExtractAgain

SpecText == InitText /\ [][NextText]_vars

----------------------------------------------------------------------------
(* Claims about the pure text functions (checked under SpecText).          *)

\* the text's last character that is not whitespace is one of cs
LastVisibleIn(s, cs) ==
    \E i \in DOMAIN s :
        /\ s[i] \in cs
        /\ \A j \in (i + 1)..Len(s) : IsSpace(s[j])

\* the pieces of the text that carry the citation marker
HasMarkerPiece(d) ==
    \E i \in DOMAIN d.parts :
        d.parts[i].kind = "cite" \/ d.parts[i] = Remark(Marker)

\* the tokens of the citations the text was assembled from, in order,
\* those of other address families left out
CitedEthTokens(d) ==
    LET cites == SelectSeq(d.parts,
                           LAMBDA g : g.kind = "cite" /\ SubSeq(g.tok, 1, 2) = EthPrefix)
    IN  [i \in DOMAIN cites |-> cites[i].tok]

\* C7: is_truncated returns true exactly when the text is neither empty nor
\* the placeholder "-0-", contains "Digital Currency Address", is at least
\* 990 characters long and, trimmed of whitespace, ends in neither '.' nor ';'.
C7_TruncatedIff ==
    tpc \in {"flagged", "out"} =>
        ( flagged <=> /\ Len(text) > 0
                      /\ text # Placeholder
                      /\ HasMarkerPiece(segs)
                      /\ Len(text) >= TruncationThreshold
                      /\ ~LastVisibleIn(text, {".", ";"}) )

\* a 995-character marker text that ends in "0x999" has been flagged
C7_Witness ==
    /\ tpc = "flagged"
    /\ flagged
    /\ Len(text) = TruncationThreshold + 5
    /\ EndsWith(text, <<"0","x","9","9","9">>)

\* C8: extract_addresses returns, in order of appearance and with duplicates
\* kept, exactly the tokens of the text's currency-address citations that
\* begin with "0x"; an empty text, the placeholder and a text without the
\* citation marker give the empty list.
C8_ExtractsCitedEthTokens ==
    tpc # "in" =>
        /\ extracted = CitedEthTokens(segs)
        /\ (text = <<>> \/ text = Placeholder \/ ~HasMarkerPiece(segs))
               => extracted = <<>>

\* a text with one "0x" citation and one citation of another family has
\* been extracted: one token kept, the other dropped
C8_Witness ==
    /\ tpc = "extracted"
    /\ Len(extracted) = 1
    /\ \E i \in DOMAIN segs.parts :
           /\ segs.parts[i].kind = "cite"
           /\ segs.parts[i].tok = <<"1","x","y","z">>

\* C9 as stated: extracting from the output joined back together gives the
\* same address set as the first extraction.
C9_PlainJoinSameSet ==
    tpc = "out" => Range(rejoined) = Range(extracted)

\* C9, amended: extracting from the output re-written as citations
\* ("Digital Currency Address - ETH <address>" joined by "; ") gives the
\* first extraction's list again.
C9_CitationJoinIdempotent ==
    tpc = "out" => recited = extracted

\* two addresses were extracted, re-written as citations and extracted again
C9_Witness ==
    /\ tpc = "out"
    /\ Len(extracted) = 2
    /\ extracted[1] # extracted[2]
    /\ recited = extracted

----------------------------------------------------------------------------
(* data.csv: written by hand (lines 434-439), read back with               *)
(* csv.DictReader (lines 286-295).                                         *)

Comma == ","

Quote == "\""

Newline == "\n"

\* Python's None (a missing DictReader column)
None == <<"<None>">>

CsvHeader == <<"a","d","d","r","e","s","s",",","n","a","m","e","\n">>

AddressColumn == <<"a","d","d","r","e","s","s">>

NameColumn == <<"n","a","m","e">>

\* name.replace('"', '""')
EscapeQuotes(s) ==
    Concat([i \in DOMAIN s |-> IF s[i] = Quote THEN <<Quote, Quote>> ELSE <<s[i]>>])

\* f'{address},"{escaped_name}"\n'
CsvLine(pair) ==
    pair[1] \o <<Comma, Quote>> \o EscapeQuotes(pair[2]) \o <<Quote, Newline>>

\* the text written to data.csv for a result list
WriteCsv(rs) == CsvHeader \o Concat([i \in DOMAIN rs |-> CsvLine(rs[i])])

RECURSIVE CsvScan(_, _, _, _, _, _)
\* csv.reader, excel dialect (delimiter ',', quotechar '"', doublequote, not
\* strict), over the characters of the file from position i.  st is the
\* reader's state, field and row what it has collected, rows the finished
\* records; an empty line gives the empty record.
CsvScan(s, i, st, field, row, rows) ==
    IF i > Len(s)
    THEN IF st = "START_RECORD" THEN rows ELSE Append(rows, Append(row, field))
    ELSE
      LET c == s[i]
      IN  CASE st = "START_RECORD" /\ c = Newline ->
                   CsvScan(s, i + 1, "START_RECORD", <<>>, <<>>, Append(rows, <<>>))
            [] st \in {"START_RECORD", "START_FIELD"} /\ c = Quote ->
                   CsvScan(s, i + 1, "IN_QUOTED_FIELD", <<>>, row, rows)
            [] st = "START_FIELD" /\ c = Newline ->
                   CsvScan(s, i + 1, "START_RECORD", <<>>, <<>>,
                           Append(rows, Append(row, <<>>)))
            [] st \in {"START_RECORD", "START_FIELD"} /\ c = Comma ->
                   CsvScan(s, i + 1, "START_FIELD", <<>>, Append(row, <<>>), rows)
            [] st \in {"START_RECORD", "START_FIELD"} /\ c \notin {Newline, Quote, Comma} ->
                   CsvScan(s, i + 1, "IN_FIELD", <<c>>, row, rows)
            [] st \in {"IN_FIELD", "QUOTE_IN_QUOTED_FIELD"} /\ c = Newline ->
                   CsvScan(s, i + 1, "START_RECORD", <<>>, <<>>,
                           Append(rows, Append(row, field)))
            [] st \in {"IN_FIELD", "QUOTE_IN_QUOTED_FIELD"} /\ c = Comma ->
                   CsvScan(s, i + 1, "START_FIELD", <<>>, Append(row, field), rows)
            [] st = "IN_FIELD" /\ c \notin {Newline, Comma} ->
                   CsvScan(s, i + 1, "IN_FIELD", Append(field, c), row, rows)
            [] st = "QUOTE_IN_QUOTED_FIELD" /\ c = Quote ->
                   CsvScan(s, i + 1, "IN_QUOTED_FIELD", Append(field, c), row, rows)
            [] st = "QUOTE_IN_QUOTED_FIELD" /\ c \notin {Newline, Comma, Quote} ->
                   CsvScan(s, i + 1, "IN_FIELD", Append(field, c), row, rows)
            [] st = "IN_QUOTED_FIELD" /\ c = Quote ->
                   CsvScan(s, i + 1, "QUOTE_IN_QUOTED_FIELD", field, row, rows)
            [] st = "IN_QUOTED_FIELD" /\ c # Quote ->
                   CsvScan(s, i + 1, "IN_QUOTED_FIELD", Append(field, c), row, rows)

\* list(csv.reader(f))
CsvRows(s) == CsvScan(s, 1, "START_RECORD", <<>>, <<>>, <<>>)

\* DictReader's row[column]: a KeyError when the header has no such column,
\* None when the row is too short, the column's last occurrence otherwise
ColumnOf(header, column) ==
    LET at == {k \in DOMAIN header : header[k] = column}
    IN  IF at = {} THEN 0 ELSE CHOOSE k \in at : \A j \in at : j <= k

FieldOf(row, k) == IF k <= Len(row) THEN row[k] ELSE None

RECURSIVE LoadRows(_, _, _, _)
\* the loop of lines 290-293 over the records after the header; the first
\* exception (a KeyError, None.lower()) ends it with what was added so far
LoadRows(header, rows, k, existing) ==
    IF k > Len(rows) THEN existing
    ELSE IF rows[k] = <<>> THEN LoadRows(header, rows, k + 1, existing)
    ELSE LET ka == ColumnOf(header, AddressColumn)
             kn == ColumnOf(header, NameColumn)
         IN  IF ka = 0 \/ kn = 0 \/ FieldOf(rows[k], ka) = None THEN existing
             ELSE LoadRows(header, rows, k + 1,
                           existing \cup {<<Lower(FieldOf(rows[k], ka)),
                                            FieldOf(rows[k], kn)>>})

\* load_existing_data with the keys taken as written, without .lower()
load_existing_data_cased(file) ==
    IF ~file.exists THEN {}
    ELSE LET rows == CsvRows(file.content)
         IN  IF rows = <<>> THEN {}
             ELSE {<<FieldOf(rows[k], 1), FieldOf(rows[k], 2)>> :
                       k \in {j \in 2..Len(rows) : rows[j] # <<>>}}

\* load_existing_data: the set of (address.lower(), name) of data.csv
load_existing_data(file) ==
    IF ~file.exists THEN {}
    ELSE LET rows == CsvRows(file.content)
         IN  IF rows = <<>> THEN {}
             ELSE LoadRows(rows[1], rows, 2, {})

NoFile == [exists |-> FALSE, content |-> <<>>]

File(content) == [exists |-> TRUE, content |-> content]

----------------------------------------------------------------------------
(* The remote lookup: query_ofac_search, get_identification_details,       *)
(* extract_eth_address_from_identifications, query_addresses_for_name.     *)
(* A page is what BeautifulSoup finds in it: whether the table (the panel) *)
(* is there, and per <tr> the number of <td> cells and their text.         *)

SearchUrl == <<"https://sanctionssearch.ofac.treas.gov/">>

\* urljoin(search_url, href) for a relative href
urljoin(base, href) == base \o href

\* lines 116-162: the rows of table gvSearchResults with six cells or more
\* (the fields besides name and detail_url are never read and left out)
ParseSearchPage(page) ==
    IF ~page.table THEN <<>>
    ELSE LET rows == SelectSeq(page.rows, LAMBDA r : r.cells >= 6)
         IN  [i \in DOMAIN rows |->
                 [name |-> Strip(rows[i].name),
                  detail_url |-> IF rows[i].link /\ rows[i].href # <<>>
                                 THEN urljoin(SearchUrl, rows[i].href)
                                 ELSE <<>>]]

\* lines 182-218: the rows of the identification table after the header row
ParseDetailPage(page) ==
    IF ~page.panel \/ ~page.table THEN <<>>
    ELSE LET all_rows == page.rows
             rows == IF Len(all_rows) > 1 THEN Tail(all_rows) ELSE <<>>
             kept == SelectSeq(rows, LAMBDA r :
                         /\ r.cells >= 2
                         /\ ~(Strip(r.type) = <<>> /\ Strip(r.id) = <<>>))
         IN  [i \in DOMAIN kept |->
                 [type |-> Strip(kept[i].type), id_number |-> Strip(kept[i].id)]]

\* extract_eth_address_from_identifications without the test of the type
extract_eth_address_any_type(identifications) ==
    LET kept == SelectSeq(identifications, LAMBDA d :
                    StartsWith(Strip(d.id_number), EthPrefix))
    IN  [i \in DOMAIN kept |-> Strip(kept[i].id_number)]

extract_eth_address_from_identifications(identifications) ==
    LET kept == SelectSeq(identifications, LAMBDA d :
                    /\ StartsWith(Strip(d.type), Marker)
                    /\ StartsWith(Strip(d.id_number), EthPrefix))
    IN  [i \in DOMAIN kept |-> Strip(kept[i].id_number)]

\* lines 249-251: the found name contains the query name, case-insensitively
NameMatches(result, name) ==
    Contains(Lower(Strip(result.name)), Lower(Strip(name)))

----------------------------------------------------------------------------
(* process_sdn_csv: the per-row steps.                                     *)

RowName(row) == StripQuotes(Strip(row[2]))

RowInfo(row) == StripQuotes(Strip(row[12]))

\* pair_key comparing the address as written
pair_key_cased(address, name) == <<address, name>>

\* lines 421 and 429
pair_key(address, name) == <<Lower(address), name>>

RECURSIVE AddPairs(_, _, _, _)
\* lines 419-424: the row's addresses, one by one, into results and seen_pairs
AddPairs(addrs, name, rs, seen) ==
    IF addrs = <<>> THEN [results |-> rs, seen_pairs |-> seen]
    ELSE LET key == pair_key(Head(addrs), name)
         IN  IF key \notin seen
             THEN AddPairs(Tail(addrs), name,
                           Append(rs, <<Head(addrs), name>>), seen \cup {key})
             ELSE AddPairs(Tail(addrs), name, rs, seen)

\* the merge comparing the addresses as written, without .lower()
MergeDb_cased(local, db) ==
    local \o SelectSeq(db, LAMBDA a : a \notin Range(local))

\* lines 411-414: the addresses of the lookup that are not among the locally
\* extracted ones (addresses_set is built once, before the loop)
MergeDb(local, db) ==
    LET addresses_set == {Lower(local[i]) : i \in DOMAIN local}
    IN  local \o SelectSeq(db, LAMBDA a : Lower(a) \notin addresses_set)

\* lines 427-431
DetectUpdates(rs, existing) ==
    SelectSeq(rs, LAMBDA p : pair_key(p[1], p[2]) \notin existing)

----------------------------------------------------------------------------
(* The exports, prior files and service answers the runs are checked on.   *)

MaxRows == 2

NameX == <<"X", "\"", "y">>

NameLowerX == <<"x", "\"", "y">>

MkRow(name, info) ==
    [k \in 1..12 |-> IF k = 2 THEN name ELSE IF k = 12 THEN info ELSE <<>>]

EthCite(alt, tok) == Cite(alt, <<" ","-"," ">>, <<"E","T","H">>, tok)

\* a complete remark citing 0xAB and, again, 0xab
InfoShortUpper ==
    RenderSeg(EthCite(FALSE, <<"0","x","A","B">>)) \o <<";", " ">>
    \o RenderSeg(EthCite(TRUE, <<"0","x","a","b">>)) \o <<".">>

\* a complete remark citing 0xab
InfoShortLower == RenderSeg(EthCite(TRUE, <<"0","x","a","b">>)) \o <<";">>

\* a remark cut at the export's 1000 characters, inside its second address
InfoCut ==
    RenderText([parts |-> <<EthCite(TRUE, <<"0","x","a","b">>),
                            EthCite(FALSE, <<"0","x","9">>)>>,
                ending |-> <<>>,
                target |-> TruncationThreshold + 10])

RowSet ==
    { MkRow(<<" ">> \o NameX, InfoShortUpper),
      MkRow(NameX, InfoCut),
      MkRow(NameLowerX, InfoShortLower),
      [k \in 1..5 |-> <<>>] }

Exports == UNION { [1..n -> RowSet] : n \in 0..MaxRows }

PriorFiles ==
    { NoFile,
      File(WriteCsv(<< <<(<<"0","x","A","B">>), NameX>> >>)),
      File(WriteCsv(<< <<(<<"0","x","a","b">>), NameLowerX>>,
                       <<(<<"0","x","c","d">>), NameX>> >>)),
      File(<<"a","d","d","r",",","n","a","m","e","\n",
             "0","x","a","b",",","\"","X","\"","\n">>) }

Tr(cells, link, name, href) ==
    [cells |-> cells, link |-> link, name |-> name, href |-> href]

HeaderTr == Tr(0, FALSE, <<>>, <<>>)

\* one match with a detail link, one result that drifted from the query,
\* one match without a link, one row with too few cells
PageOneMatch ==
    [table |-> TRUE,
     rows |-> << HeaderTr,
                 Tr(6, TRUE, NameLowerX \o <<" ","C","o">>, <<"d","1">>),
                 Tr(6, TRUE, <<"Z">>, <<"d","2">>),
                 Tr(6, FALSE, NameX, <<>>),
                 Tr(5, TRUE, NameX, <<"d","2">>) >>]

PageTwoMatches ==
    [table |-> TRUE,
     rows |-> << HeaderTr,
                 Tr(7, TRUE, <<" ">> \o NameX \o <<" ","L","t","d"," ">>, <<"d","1">>),
                 Tr(6, TRUE, <<"A">> \o NameX, <<"d","2">>) >>]

PageNoTable == [table |-> FALSE, rows |-> <<>>]

SearchPages == { PageOneMatch, PageTwoMatches, PageNoTable }

IdTr(cells, type, id) == [cells |-> cells, type |-> type, id |-> id]

EthType == Marker \o <<" ","-"," ","E","T","H">>

DetailMixed ==
    [panel |-> TRUE, table |-> TRUE,
     rows |-> << IdTr(0, <<>>, <<>>),
                 IdTr(3, EthType, <<" ","0","x","A","B">>),
                 IdTr(2, <<"P","a","s","s","p","o","r","t">>, <<"0","x","1">>),
                 IdTr(2, Marker \o <<" ","-"," ","X","B","T">>, <<"1","a","b","c">>),
                 IdTr(1, EthType, <<"0","x","7">>),
                 IdTr(2, <<" ">>, <<>>) >>]

DetailTwice ==
    [panel |-> TRUE, table |-> TRUE,
     rows |-> << IdTr(0, <<>>, <<>>),
                 IdTr(2, EthType, <<"0","x","C","D">>),
                 IdTr(2, EthType, <<"0","x","c","d">>) >>]

DetailComma ==
    [panel |-> TRUE, table |-> TRUE,
     rows |-> << IdTr(0, <<>>, <<>>),
                 IdTr(2, EthType, <<"0","x","E",",","F">>) >>]

DetailNoPanel == [panel |-> FALSE, table |-> FALSE, rows |-> <<>>]

\* what a detail URL may answer (besides failing)
DetailPages(url) ==
    IF url = urljoin(SearchUrl, <<"d","1">>)
    THEN { DetailMixed, DetailTwice }
    ELSE { DetailTwice, DetailComma, DetailNoPanel }

\* a request that raised requests.RequestException: a connection error, a
\* non-success status (raise_for_status) or a timeout
Failed == [error |-> "RequestException"]

\* a request that was answered (status 2xx) with this body
Got(body) == [body |-> body]

Bodies(answers) == {a.body : a \in {b \in answers : b # Failed}}

SearchAnswers == {Got(page) : page \in SearchPages} \cup {Failed}

DetailAnswers(url) == {Got(page) : page \in DetailPages(url)} \cup {Failed}

\* the answer to a request: the one given before to the same request, or any
Answers(memo, key, fresh) == IF key \in DOMAIN memo THEN {memo[key]} ELSE fresh

Remember(memo, key, answer) == (key :> answer) @@ memo

LogEntry(stage, idx, ok) ==
    [row |-> row_num, stage |-> stage, name |-> RowName(sdn[row_num]),
     idx |-> idx, ok |-> ok]

----------------------------------------------------------------------------
(* process_sdn_csv as a state machine.  Each request of the lookup is a    *)
(* step of its own; everything between two requests is part of the step    *)
(* that follows the first.  The statistics table and README.md are left    *)
(* out.                                                                    *)

Init ==
    /\ segs = [parts |-> <<>>, ending |-> <<>>, target |-> 0]
    /\ text = <<>> /\ tpc = "idle" /\ extracted = <<>> /\ flagged = FALSE
    /\ rejoined = <<>> /\ recited = <<>>
    /\ sdn \in Exports
    /\ datacsv \in PriorFiles
    /\ web = [get |-> <<>>, post |-> <<>>, detail |-> <<>>]
    /\ pc = "start"
    /\ run = 1
    /\ existing_data = {}
    /\ results = <<>>
    /\ seen_pairs = {}
    /\ row_num = 0
    /\ addresses = <<>>
    /\ search_results = <<>>
    /\ res_idx = 1
    /\ db_addresses = <<>>
    /\ new_entries = <<>>
    /\ log = <<>>
    /\ prior = NoFile
    /\ results1 = <<>>

\* download_sdn_csv returned the path
DownloadOk ==
    /\ pc = "start"
    /\ pc' = "load"
    /\ UNCHANGED <<textVars, worldVars, run, existing_data, results, seen_pairs,
                   row_num, addresses, search_results, res_idx, db_addresses,
                   new_entries, log, prior, results1>>

\* download_sdn_csv: requests.RequestException, sys.exit(1)
DownloadFail ==
    /\ pc = "start"
    /\ pc' = "exit1"
    /\ UNCHANGED <<textVars, worldVars, run, existing_data, results, seen_pairs,
                   row_num, addresses, search_results, res_idx, db_addresses,
                   new_entries, log, prior, results1>>

\* lines 380-384
LoadExisting ==
    /\ pc = "load"
    /\ existing_data' = load_existing_data(datacsv)
    /\ prior' = datacsv
    /\ results' = <<>>
    /\ seen_pairs' = {}
    /\ pc' = "rows"
    /\ UNCHANGED <<textVars, worldVars, run, row_num, addresses, search_results,
                   res_idx, db_addresses, new_entries, log, results1>>

\* lines 392-393: a row with fewer than 12 columns
SkipShortRow ==
    /\ pc = "rows"
    /\ row_num < Len(sdn)
    /\ Len(sdn[row_num + 1]) < 12
    /\ row_num' = row_num + 1
    /\ UNCHANGED <<textVars, worldVars, pc, run, existing_data, results,
                   seen_pairs, addresses, search_results, res_idx, db_addresses,
                   new_entries, log, prior, results1>>

\* lines 396-424 for a row that is not flagged truncated
ProcessRow ==
    /\ pc = "rows"
    /\ row_num < Len(sdn)
    /\ LET row == sdn[row_num + 1]
       IN  /\ Len(row) >= 12
           /\ ~is_truncated(RowInfo(row))
           /\ addresses' = extract_addresses(RowInfo(row))
           /\ LET added == AddPairs(addresses', RowName(row), results, seen_pairs)
              IN  /\ results' = added.results
                  /\ seen_pairs' = added.seen_pairs
    /\ row_num' = row_num + 1
    /\ db_addresses' = <<>>
    /\ UNCHANGED <<textVars, worldVars, pc, run, existing_data, search_results,
                   res_idx, new_entries, log, prior, results1>>

\* lines 396-407 for a row flagged truncated: query_addresses_for_name is
\* called and query_ofac_search opens its session
BeginLookup ==
    /\ pc = "rows"
    /\ row_num < Len(sdn)
    /\ LET row == sdn[row_num + 1]
       IN  /\ Len(row) >= 12
           /\ is_truncated(RowInfo(row))
           /\ addresses' = extract_addresses(RowInfo(row))
    /\ row_num' = row_num + 1
    /\ db_addresses' = <<>>
    /\ search_results' = <<>>
    /\ res_idx' = 1
    /\ pc' = "get"
    /\ UNCHANGED <<textVars, worldVars, run, existing_data, results, seen_pairs,
                   new_entries, log, prior, results1>>

\* lines 72-73: the GET of the search page succeeded
SearchGetOk ==
    /\ pc = "get"
    /\ LET name == RowName(sdn[row_num])
       IN  /\ Got("form") \in Answers(web.get, name, {Got("form"), Failed})
           /\ web' = [web EXCEPT !.get = Remember(@, name, Got("form"))]
    /\ log' = Append(log, LogEntry("GET", 0, TRUE))
    /\ pc' = "post"
    /\ UNCHANGED <<textVars, sdn, datacsv, run, existing_data, results,
                   seen_pairs, row_num, addresses, search_results, res_idx,
                   db_addresses, new_entries, prior, results1>>

\* the GET raised, line 76 leaves query_ofac_search with the empty list
SearchGetFail_exit ==
    /\ pc = "get"
    /\ LET name == RowName(sdn[row_num])
       IN  /\ Failed \in Answers(web.get, name, {Got("form"), Failed})
           /\ web' = [web EXCEPT !.get = Remember(@, name, Failed)]
    /\ log' = Append(log, LogEntry("GET", 0, FALSE))
    /\ pc' = "exit1"
    /\ UNCHANGED <<textVars, sdn, datacsv, run, existing_data, results,
                   seen_pairs, row_num, addresses, search_results, res_idx,
                   db_addresses, new_entries, prior, results1>>

\* lines 74-76: the GET raised requests.RequestException
SearchGetFail ==
    /\ pc = "get"
    /\ LET name == RowName(sdn[row_num])
       IN  /\ Failed \in Answers(web.get, name, {Got("form"), Failed})
           /\ web' = [web EXCEPT !.get = Remember(@, name, Failed)]
    /\ log' = Append(log, LogEntry("GET", 0, FALSE))
    /\ search_results' = <<>>
    /\ res_idx' = 1
    /\ pc' = "results"
    /\ UNCHANGED <<textVars, sdn, datacsv, run, existing_data, results,
                   seen_pairs, row_num, addresses, db_addresses, new_entries,
                   prior, results1>>

\* lines 106-162: the POST succeeded and the result table is parsed
SearchPostOk ==
    /\ pc = "post"
    /\ LET name == RowName(sdn[row_num])
       IN  \E page \in Bodies(Answers(web.post, name, SearchAnswers)) :
               /\ web' = [web EXCEPT !.post = Remember(@, name, Got(page))]
               /\ search_results' = ParseSearchPage(page)
    /\ log' = Append(log, LogEntry("POST", 0, TRUE))
    /\ res_idx' = 1
    /\ pc' = "results"
    /\ UNCHANGED <<textVars, sdn, datacsv, run, existing_data, results,
                   seen_pairs, row_num, addresses, db_addresses, new_entries,
                   prior, results1>>

\* the POST raised and the request is sent again
SearchPostFail_retry ==
    /\ pc = "post"
    /\ LET name == RowName(sdn[row_num])
       IN  /\ Failed \in Answers(web.post, name, SearchAnswers)
           /\ web' = [web EXCEPT !.post = Remember(@, name, Failed)]
    /\ log' = Append(log, LogEntry("POST", 0, FALSE))
    /\ pc' = "post"
    /\ UNCHANGED <<textVars, sdn, datacsv, run, existing_data, results,
                   seen_pairs, row_num, addresses, search_results, res_idx,
                   db_addresses, new_entries, prior, results1>>

\* lines 108-110: the POST raised requests.RequestException
SearchPostFail ==
    /\ pc = "post"
    /\ LET name == RowName(sdn[row_num])
       IN  /\ Failed \in Answers(web.post, name, SearchAnswers)
           /\ web' = [web EXCEPT !.post = Remember(@, name, Failed)]
    /\ log' = Append(log, LogEntry("POST", 0, FALSE))
    /\ search_results' = <<>>
    /\ res_idx' = 1
    /\ pc' = "results"
    /\ UNCHANGED <<textVars, sdn, datacsv, run, existing_data, results,
                   seen_pairs, row_num, addresses, db_addresses, new_entries,
                   prior, results1>>

\* lines 247-254: a result whose name does not contain the query name, or
\* that has no detail URL, is passed over
SkipResult ==
    /\ pc = "results"
    /\ res_idx <= Len(search_results)
    /\ LET result == search_results[res_idx]
       IN  \/ ~NameMatches(result, RowName(sdn[row_num]))
           \/ result.detail_url = <<>>
    /\ res_idx' = res_idx + 1
    /\ UNCHANGED <<textVars, worldVars, pc, run, existing_data, results,
                   seen_pairs, row_num, addresses, search_results, db_addresses,
                   new_entries, log, prior, results1>>

\* lines 255-257 with the detail page fetched (lines 176-218)
DetailGetOk ==
    /\ pc = "results"
    /\ res_idx <= Len(search_results)
    /\ LET result == search_results[res_idx]
           url == result.detail_url
       IN  /\ NameMatches(result, RowName(sdn[row_num]))
           /\ url # <<>>
           /\ \E page \in Bodies(Answers(web.detail, url, DetailAnswers(url))) :
                  /\ web' = [web EXCEPT !.detail = Remember(@, url, Got(page))]
                  /\ db_addresses' = db_addresses \o
                         extract_eth_address_from_identifications(ParseDetailPage(page))
    /\ log' = Append(log, LogEntry("DETAIL", res_idx, TRUE))
    /\ res_idx' = res_idx + 1
    /\ UNCHANGED <<textVars, sdn, datacsv, pc, run, existing_data, results,
                   seen_pairs, row_num, addresses, search_results, new_entries,
                   prior, results1>>

\* lines 255-257 with the detail GET raising (lines 178-180): no
\* identifications for this result
DetailGetFail ==
    /\ pc = "results"
    /\ res_idx <= Len(search_results)
    /\ LET result == search_results[res_idx]
           url == result.detail_url
       IN  /\ NameMatches(result, RowName(sdn[row_num]))
           /\ url # <<>>
           /\ Failed \in Answers(web.detail, url, DetailAnswers(url))
           /\ web' = [web EXCEPT !.detail = Remember(@, url, Failed)]
    /\ log' = Append(log, LogEntry("DETAIL", res_idx, FALSE))
    /\ res_idx' = res_idx + 1
    /\ UNCHANGED <<textVars, sdn, datacsv, pc, run, existing_data, results,
                   seen_pairs, row_num, addresses, search_results, db_addresses,
                   new_entries, prior, results1>>

\* lines 408-424 once query_addresses_for_name has returned
Merge ==
    /\ pc = "results"
    /\ res_idx > Len(search_results)
    /\ addresses' = MergeDb(addresses, db_addresses)
    /\ LET added == AddPairs(addresses', RowName(sdn[row_num]), results, seen_pairs)
       IN  /\ results' = added.results
           /\ seen_pairs' = added.seen_pairs
    /\ pc' = "rows"
    /\ UNCHANGED <<textVars, worldVars, run, existing_data, row_num,
                   search_results, res_idx, db_addresses, new_entries, log,
                   prior, results1>>

\* lines 426-439 after the last row: the updates, and data.csv written
Finish ==
    /\ pc = "rows"
    /\ row_num = Len(sdn)
    /\ new_entries' = DetectUpdates(results, existing_data)
    /\ datacsv' = File(WriteCsv(results))
    /\ pc' = "done"
    /\ UNCHANGED <<textVars, sdn, web, run, existing_data, results, seen_pairs,
                   row_num, addresses, search_results, res_idx, db_addresses,
                   log, prior, results1>>

\* the program is started again: the same export is served, the service
\* answers as before, data.csv is the one the first run wrote
RunAgain ==
    /\ pc = "done"
    /\ run = 1
    /\ run' = 2
    /\ results1' = results
    /\ pc' = "start"
    /\ existing_data' = {}
    /\ results' = <<>>
    /\ seen_pairs' = {}
    /\ row_num' = 0
    /\ addresses' = <<>>
    /\ search_results' = <<>>
    /\ res_idx' = 1
    /\ db_addresses' = <<>>
    /\ new_entries' = <<>>
    /\ log' = <<>>
    /\ UNCHANGED <<textVars, worldVars, prior>>

Next ==
    \/ DownloadOk \/ DownloadFail \/ LoadExisting
    \/ SkipShortRow \/ ProcessRow \/ BeginLookup
    \/ SearchGetOk \/ SearchGetFail \/ SearchPostOk \/ SearchPostFail
    \/ SkipResult \/ DetailGetOk \/ DetailGetFail
    \/ Merge \/ Finish \/ RunAgain

Spec == Init /\ [][Next]_vars

----------------------------------------------------------------------------
(* Claims about the run (checked under Spec).                              *)

\* the deduplication key of a pair: (lowercase(address), name)
KeyOf(pair) == <<Lower(pair[1]), pair[2]>>

ValidRows == {i \in DOMAIN sdn : Len(sdn[i]) >= 12}

LocalOf(i) == extract_addresses(RowInfo(sdn[i]))

\* every locally extracted address of row r is in the result list, under
\* the row's name
LocalKept(r) ==
    LET local == LocalOf(r)
        keys == {KeyOf(results[i]) : i \in DOMAIN results}
    IN  \A k \in DOMAIN local : <<Lower(local[k]), RowName(sdn[r])>> \in keys

\* query_addresses_for_name has returned to line 407
LookupReturned == pc = "results" /\ res_idx > Len(search_results)

\* the requests issued for the row being processed
RowLog == SelectSeq(log, LAMBDA e : e.row = row_num)

\* C1: the result list never holds two pairs with the same key
\* (lowercase(address), name); and once the run is done every locally
\* extracted address of every row is there under its own name, so pairs that
\* differ in the letter case of the name are both kept.
C1_ResultKeysUnique ==
    /\ \A i, j \in DOMAIN results :
           i < j => KeyOf(results[i]) # KeyOf(results[j])
    /\ pc = "done" =>
           \A r \in ValidRows : LocalKept(r)

\* a run is done whose export cited 0xAB and 0xab under one name (one pair
\* kept) and 0xab under the same name in lower case (kept as well)
C1_Witness ==
    /\ pc = "done"
    /\ \E r \in ValidRows :
           LET local == LocalOf(r)
           IN  \E k, m \in DOMAIN local :
                   local[k] # local[m] /\ Lower(local[k]) = Lower(local[m])
    /\ \E i, j \in DOMAIN results :
           /\ Lower(results[i][1]) = Lower(results[j][1])
           /\ results[i][2] # results[j][2]
           /\ Lower(results[i][2]) = Lower(results[j][2])

\* the keys of the records of the prior file: none when the file is missing
\* or its header lacks the address column
PriorKeys ==
    IF ~prior.exists THEN {}
    ELSE LET rows == CsvRows(prior.content)
         IN  IF rows = <<>> \/ rows[1] # <<AddressColumn, NameColumn>> THEN {}
             ELSE { <<Lower(rows[k][1]), IF Len(rows[k]) >= 2 THEN rows[k][2] ELSE None>> :
                        k \in {j \in 2..Len(rows) : rows[j] # <<>>} }

\* C2: a pair of the result list is reported as new exactly when its key
\* (lowercase(address), name) is not among the keys of the prior file,
\* whatever the letter case of the address in the file or in the run.
C2_NewIffAbsentFromPrior ==
    pc = "done" =>
        /\ \A i \in DOMAIN results :
               (results[i] \in Range(new_entries)) <=> (KeyOf(results[i]) \notin PriorKeys)
        /\ new_entries = SelectSeq(results, LAMBDA p : KeyOf(p) \notin PriorKeys)

\* a run is done that reports some pair as new and keeps quiet about a pair
\* whose address the prior file writes in another letter case
C2_Witness ==
    /\ pc = "done"
    /\ new_entries # <<>>
    /\ \E i \in DOMAIN results :
           /\ results[i] \notin Range(new_entries)
           /\ ~Contains(prior.content, results[i][1])

\* the addresses a fetched detail page contributes
EthIdsOf(answer) ==
    IF answer = Failed \/ ~answer.body.panel \/ ~answer.body.table THEN <<>>
    ELSE LET rows == answer.body.rows
             ids == SelectSeq([k \in 1..(Len(rows) - 1) |-> rows[k + 1]],
                              LAMBDA r : /\ r.cells >= 2
                                         /\ HasAt(Strip(r.type), 1, Marker)
                                         /\ HasAt(Strip(r.id), 1, EthPrefix))
         IN  [k \in DOMAIN ids |-> Strip(ids[k].id)]

\* C3: a failed request never ends the run: the run exits early only when
\* the download failed; a failed GET or POST leaves the lookup empty, a
\* failed detail GET leaves out that result only, the detail pages of the
\* other matching results are fetched; and the finished run has gone through
\* every row and holds every row's locally extracted addresses.
C3_FailuresAbsorbed ==
    /\ pc = "exit1" => log = <<>>
    /\ LookupReturned =>
           /\ (\E k \in DOMAIN RowLog : RowLog[k].stage # "DETAIL" /\ ~RowLog[k].ok)
                  => db_addresses = <<>>
           /\ \A j \in DOMAIN search_results :
                  (NameMatches(search_results[j], RowName(sdn[row_num]))
                   /\ search_results[j].detail_url # <<>>)
                      => \E k \in DOMAIN RowLog :
                             RowLog[k].stage = "DETAIL" /\ RowLog[k].idx = j
           /\ db_addresses =
                  Concat([j \in DOMAIN search_results |->
                      IF \E k \in DOMAIN RowLog :
                             RowLog[k].stage = "DETAIL" /\ RowLog[k].idx = j /\ RowLog[k].ok
                      THEN EthIdsOf(web.detail[search_results[j].detail_url])
                      ELSE <<>>])
    /\ pc = "done" =>
           /\ row_num = Len(sdn)
           /\ \A r \in ValidRows : LocalKept(r)

\* a run is done in which a detail GET failed, the next result's detail page
\* was fetched all the same, and a row after the truncated one was processed
C3_Witness ==
    /\ pc = "done"
    /\ \E i, j \in DOMAIN log :
           /\ i < j
           /\ log[i].stage = "DETAIL" /\ ~log[i].ok
           /\ log[j].stage = "DETAIL" /\ log[j].ok /\ log[j].row = log[i].row
           /\ log[i].row < Len(sdn)
           /\ log[i].row + 1 \in ValidRows
    /\ results # <<>>

\* a row has just been processed and addresses is its candidate list
RowProcessed == pc = "rows" /\ row_num \in ValidRows

RECURSIVE AppendUnseen(_, _)
\* the addresses of db appended one by one, each unless the list it is
\* appended to already holds it in some letter case
AppendUnseen(list, db) ==
    IF db = <<>> THEN list
    ELSE IF Lower(Head(db)) \in {Lower(list[i]) : i \in DOMAIN list}
         THEN AppendUnseen(list, Tail(db))
         ELSE AppendUnseen(Append(list, Head(db)), Tail(db))

\* requests are issued for rows flagged truncated only, and a row not
\* flagged keeps exactly its locally extracted addresses
LookupOnlyIfTruncated ==
    LET info == RowInfo(sdn[row_num])
    IN  IF is_truncated(info)
        THEN RowLog # <<>>
        ELSE RowLog = <<>> /\ addresses = extract_addresses(info)

\* C4 as stated: the candidate list of a truncated row is its locally
\* extracted addresses followed by the recovered addresses that are not
\* already in the candidate list, compared case-insensitively.
C4_MergedAgainstCandidateList ==
    RowProcessed =>
        /\ LookupOnlyIfTruncated
        /\ RowLog # <<>> =>
               addresses = AppendUnseen(LocalOf(row_num), db_addresses)

\* C4, amended: the candidate list of a truncated row is its locally
\* extracted addresses, in their order, followed by the recovered addresses
\* that are not among the locally extracted ones, compared
\* case-insensitively (two recovered addresses that differ only in letter
\* case are both appended); the lookup is made for truncated rows only and
\* any other row keeps exactly its locally extracted addresses.
C4_MergedAgainstLocal ==
    RowProcessed =>
        /\ LookupOnlyIfTruncated
        /\ RowLog # <<>> =>
               LET local == LocalOf(row_num)
                   lowered == {Lower(local[i]) : i \in DOMAIN local}
               IN  addresses = local \o SelectSeq(db_addresses,
                                                  LAMBDA a : Lower(a) \notin lowered)

\* a truncated row has been merged: one recovered address was already
\* extracted locally in another letter case, another one was appended
C4_Witness ==
    /\ RowProcessed
    /\ RowLog # <<>>
    /\ Len(addresses) > Len(LocalOf(row_num))
    /\ \E k \in DOMAIN db_addresses :
           /\ db_addresses[k] \notin Range(addresses)
           /\ Lower(db_addresses[k]) \in {Lower(addresses[i]) : i \in DOMAIN addresses}

\* the query name is in the found name, letter case apart
NameInside(found, name) ==
    \E p \in 1..(Len(found) + 1) : HasAt(Lower(found), p, Lower(name))

\* what the lookup of name should return, read from the service's answers:
\* nothing when the GET or the POST failed; otherwise, per row of the result
\* table with six cells, a link and a matching name, the "0x" values of the
\* "Digital Currency Address" identifications of its detail page
RecoveredFor(name) ==
    IF web.get[name] = Failed \/ name \notin DOMAIN web.post THEN <<>>
    ELSE IF web.post[name] = Failed \/ ~web.post[name].body.table THEN <<>>
    ELSE LET trs == web.post[name].body.rows
         IN  Concat([k \in DOMAIN trs |->
                 IF /\ trs[k].cells >= 6
                    /\ trs[k].link
                    /\ trs[k].href # <<>>
                    /\ NameInside(trs[k].name, name)
                 THEN IF SearchUrl \o trs[k].href \in DOMAIN web.detail
                      THEN EthIdsOf(web.detail[SearchUrl \o trs[k].href])
                      ELSE <<"<not fetched>">>
                 ELSE <<>>])

\* C5: query_addresses_for_name returns exactly the values that begin with
\* "0x" of the identifications whose type begins with "Digital Currency
\* Address", from the detail page of each search result whose name contains
\* the query name case-insensitively; no detail page is fetched for a result
\* whose name does not contain it.
C5_RecoveredAddresses ==
    LookupReturned =>
        /\ db_addresses = RecoveredFor(RowName(sdn[row_num]))
        /\ \A k \in DOMAIN RowLog :
               RowLog[k].stage = "DETAIL" =>
                   NameInside(search_results[RowLog[k].idx].name, RowName(sdn[row_num]))

\* a lookup has returned one address from a detail page that also lists a
\* passport and another currency, after passing over a result of another name
C5_Witness ==
    /\ LookupReturned
    /\ db_addresses = << <<"0","x","A","B">> >>
    /\ \E j \in DOMAIN search_results :
           ~NameInside(search_results[j].name, RowName(sdn[row_num]))
    /\ \E k \in DOMAIN RowLog : RowLog[k].stage = "DETAIL" /\ RowLog[k].ok

\* each POST comes after a successful GET, each detail GET after a
\* successful POST, of the same name (by = "name") or record (by = "row")
StagesInOrder(by) ==
    \A j \in DOMAIN log :
        /\ log[j].stage = "POST" =>
               \E i \in 1..(j - 1) :
                   log[i][by] = log[j][by] /\ log[i].stage = "GET" /\ log[i].ok
        /\ log[j].stage = "DETAIL" =>
               \E i \in 1..(j - 1) :
                   log[i][by] = log[j][by] /\ log[i].stage = "POST" /\ log[i].ok

\* C6 as stated: per entity name at most one GET and at most one POST in a
\* run, the POST only after the name's GET succeeded, detail GETs only after
\* its POST succeeded, and no request after a failed one of the same stage
\* for the same name.
C6_OneAttemptPerName ==
    /\ \A i, j \in DOMAIN log :
           (i < j /\ log[i].name = log[j].name /\ log[i].stage = log[j].stage)
               => (log[i].stage = "DETAIL" /\ log[i].idx # log[j].idx)
    /\ StagesInOrder("name")

\* C6, amended: per truncated record (per call of the lookup) at most one
\* GET and at most one POST are issued, the POST only after that record's
\* GET succeeded, detail GETs only after its POST succeeded and at most one
\* per search result, and no request is repeated after it failed; two
\* truncated records with the same name are looked up once each.
C6_OneAttemptPerLookup ==
    /\ \A i, j \in DOMAIN log :
           (i < j /\ log[i].row = log[j].row /\ log[i].stage = log[j].stage)
               => (log[i].stage = "DETAIL" /\ log[i].idx # log[j].idx)
    /\ StagesInOrder("row")

\* a run is done that looked up two records, with a failed request among
\* the requests of the first
C6_Witness ==
    /\ pc = "done"
    /\ \E i, j, k \in DOMAIN log :
           /\ log[i].stage = "GET" /\ log[j].stage = "GET" /\ log[i].row < log[j].row
           /\ log[k].row = log[i].row /\ ~log[k].ok

\* C10: the run that follows a completed run, on the same export and with
\* the same answers of the service, loads the file that run wrote, produces
\* the same result list and reports no new entry.
C10_SecondRunReportsNothing ==
    (run = 2 /\ pc = "done") =>
        /\ existing_data = {KeyOf(results1[i]) : i \in DOMAIN results1}
        /\ results = results1
        /\ new_entries = <<>>

============================================================================
